---- MODULE Spec2Model ----
(***************************************************************************)
(* A model of modrinth_collection_downloader.py: the retrying API client,  *)
(* the version compatibility resolver, the per-category index store, the   *)
(* manual-addition reconciler and the download orchestrator run by a       *)
(* thread pool.                                                            *)
(*                                                                         *)
(* Four specifications share the module:                                   *)
(*   SpecResolver  get_latest_version applied to bounded inputs            *)
(*   SpecRequest   one execution of ModrinthClient._request_with_retries   *)
(*   Spec          main(): reconciler, then the worker pool running        *)
(*                 download_project, possibly followed by a second run     *)
(*   SpecFair      one run of main() under fair scheduling of its threads  *)
(***************************************************************************)
EXTENDS Integers, Sequences, FiniteSets, TLC

VARIABLES
    resolver,      \* one call of get_latest_version: arguments, position, return value
    request,       \* one execution of _request_with_retries: loop state and history
    main_pc,       \* position of main()
    run,           \* number of the current run of main() (1 or 2)
    collection,    \* collection.get("projects"): the top-level project ids
    index,         \* the index files under LOG_DIR: index file name -> (filename -> id)
    disk,          \* the content directories: directory name -> set of file names
    seen_mods,     \* the seen-set of main()
    file_lock,     \* threading.Lock(): its holder, or NoWorker
    work_queue,    \* the executor's pending tasks (project ids, FIFO)
    workers,       \* per pool thread: call stack of download_project frames and position
    input_queue,   \* input_queue: pending (prompt, response_queue) requests
    console,       \* console_dispatcher: the request whose prompt it is showing, or None
    history        \* observations of the run (transfers, record steps, log events)

vars == <<resolver, request, main_pc, run, collection, index, disk, seen_mods,
          file_lock, work_queue, workers, input_queue, console, history>>

orchestratorVars == <<main_pc, run, collection, index, disk, seen_mods,
                      file_lock, work_queue, workers, input_queue, console, history>>

-----------------------------------------------------------------------------
(* Python values *)

\* None and a present value: Python's Optional as a sequence of length 0 or 1.
None == <<>>

Some(x) == <<x>>

Min(a, b) == IF a <= b THEN a ELSE b

Max(a, b) == IF a >= b THEN a ELSE b

\* Python's ordering of tuples of ints: the first differing element decides,
\* a proper prefix is smaller.
TupleLess(a, b) ==
    \/ \E i \in 1..Min(Len(a), Len(b)) :
          /\ \A j \in 1..(i - 1) : a[j] = b[j]
          /\ a[i] < b[i]
    \/ /\ Len(a) < Len(b)
       /\ \A j \in 1..Len(a) : a[j] = b[j]

TupleLeq(a, b) == a = b \/ TupleLess(a, b)

\* One dot-separated part of a version string: a run of digits with its value,
\* or something else ("x", "24w14a", "8-rc1").
Digits(n) == [isdigit |-> TRUE, val |-> n]

NonDigit == [isdigit |-> FALSE, val |-> 0]

IsDigitPart(part) == part.isdigit

\* parse_version: the int of every part that is all digits, the others dropped.
RECURSIVE parse_version(_)
parse_version(v) ==
    IF v = <<>> THEN <<>>
    ELSE IF IsDigitPart(Head(v))
         THEN <<Head(v).val>> \o parse_version(Tail(v))
         ELSE parse_version(Tail(v))

\* The members of a Python list.
Range(s) == {s[i] : i \in 1..Len(s)}

\* [parse_version(ver) for ver in v.get("game_versions", [])]
ParsedGameVersions(v) == [i \in 1..Len(v.game_versions) |-> parse_version(v.game_versions[i])]

\* max() of a non-empty collection of tuples.
MaxTuple(S) == CHOOSE m \in S : \A x \in S : TupleLeq(x, m)

\* The values of the variables a specification does not use.
NoWorker == 0

OrchestratorIdle ==
    /\ main_pc = "idle"
    /\ run = 0
    /\ collection = <<>>
    /\ index = <<>>
    /\ disk = <<>>
    /\ seen_mods = {}
    /\ file_lock = NoWorker
    /\ work_queue = <<>>
    /\ workers = <<>>
    /\ input_queue = <<>>
    /\ console = <<>>
    /\ history = <<>>

RequestIdle ==
    [pc |-> "idle", action |-> "", attempt |-> 0, delay |-> 0, ret |-> "",
     attempts |-> 0, outcomes |-> <<>>, sleeps |-> <<>>]

-----------------------------------------------------------------------------
(* Version compatibility resolver *)

\* gv: the highest game version of v not exceeding the target, or None.
gv(v, target_version) ==
    LET game_versions == {g \in Range(ParsedGameVersions(v)) : TupleLeq(g, target_version)}
    IN  IF game_versions = {} THEN None ELSE Some(MaxTuple(game_versions))

\* is_compatible: some game version within [fallback, target], and for a mod the
\* loader (or a generic loader tag) among the version's loaders.
is_compatible(v, loader, fallback, target, project_type) ==
    LET version_ok == \E g \in Range(ParsedGameVersions(v)) :
                          TupleLeq(fallback, g) /\ TupleLeq(g, target)
        loader_ok ==
            \/ project_type # "mod"
            \/ loader = None
            \/ loader[1] \in Range(v.loaders)
            \/ \E l \in {"minecraft", "datapack"} : l \in Range(v.loaders)
    IN  version_ok /\ loader_ok

\* A looser test than line 247: some game version is not above the target.
ListsTargetLoose(v, target_version) == gv(v, target_version) # None

\* The test of line 247: the target is one of the version's parsed game versions.
ListsTarget(v, target_version) == target_version \in Range(ParsedGameVersions(v))

\* The filter of line 242 with a truthiness test in place of 'is not None'.
ValidVersionsTruthy(versions, target_version) ==
    SelectSeq(versions, LAMBDA v : gv(v, target_version) # None /\ gv(v, target_version)[1] # <<>>)

\* The filter of line 242: the versions with some game version not above the target.
ValidVersions(versions, target_version) ==
    SelectSeq(versions, LAMBDA v : gv(v, target_version) # None)

\* The last of the maximal elements, as a max that prefers later elements would give.
LastMaxByGv(vs, target_version) ==
    LET key(i) == gv(vs[i], target_version)[1]
        best == CHOOSE i \in 1..Len(vs) :
                    /\ \A j \in 1..Len(vs) : TupleLeq(key(j), key(i))
                    /\ \A j \in (i + 1)..Len(vs) : TupleLess(key(j), key(i))
    IN  vs[best]

\* max(vs, key=lambda v: gv(v, target)) for vs whose keys are all present:
\* Python's max returns the first of the maximal elements.
FirstMaxByGv(vs, target_version) ==
    LET key(i) == gv(vs[i], target_version)[1]
        best == CHOOSE i \in 1..Len(vs) :
                    /\ \A j \in 1..Len(vs) : TupleLeq(key(j), key(i))
                    /\ \A j \in 1..(i - 1) : TupleLess(key(j), key(i))
    IN  vs[best]

\* The list comprehension of line 240.
Compatible(versions, loader, fallback_bound, target_version, project_type) ==
    SelectSeq(versions,
              LAMBDA v : is_compatible(v, loader, fallback_bound, target_version, project_type))

\* get_latest_version. versions is what modrinth.get_mod_version returned (None or
\* a list). The result is the pair (version, success); branch names the return
\* statement that produced it.
get_latest_version(versions, target_version, loader, fallback_bound, project_type) ==
    IF versions = None \/ versions[1] = <<>>
    THEN [version |-> None, success |-> FALSE, branch |-> "no_versions"]
    ELSE
      LET compatible == Compatible(versions[1], loader, fallback_bound,
                                   target_version, project_type)
          valid_versions == ValidVersions(versions[1], target_version)
          exact == SelectSeq(compatible, LAMBDA v : ListsTarget(v, target_version))
      IN  IF compatible = <<>>
          THEN IF valid_versions = <<>>
               THEN [version |-> None, success |-> FALSE, branch |-> "none"]
               ELSE [version |-> Some(FirstMaxByGv(valid_versions, target_version)),
                     success |-> FALSE, branch |-> "nonmatch"]
          ELSE IF exact # <<>>
               THEN [version |-> Some(Head(exact)), success |-> TRUE, branch |-> "exact"]
               ELSE [version |-> Some(FirstMaxByGv(compatible, target_version)),
                     success |-> TRUE, branch |-> "fallback"]

\* The test of line 312 with its second condition the wrong way round: the prompt
\* is put up only for a file the index already maps to this id.
NeedsFallbackPromptInverted(version, target_version, existing_is_mod) ==
    /\ target_version \notin Range(ParsedGameVersions(version))
    /\ existing_is_mod

\* Line 312: the fallback prompt is needed when the chosen version does not list
\* the target and the index does not already map the candidate filename to this id.
NeedsFallbackPrompt(version, target_version, existing_is_mod) ==
    /\ target_version \notin Range(ParsedGameVersions(version))
    /\ ~existing_is_mod

\* should_use_fallback: safe_input(prompt).strip().lower() == "y"
OperatorAnswers == {"y", " Y", "n", ""}

AcceptsFallback(answer) == answer \in {"y", " Y"}

-----------------------------------------------------------------------------
(* SpecResolver: get_latest_version and the use made of its result, on bounded inputs *)

MaxVersions == 2

BoundedSeq(S, n) == UNION {[1..k -> S] : k \in 0..n}

GameVersion(a, b, c) == <<Digits(a), Digits(b), Digits(c)>>

\* "24w14a": no part is all digits, parse_version gives ().
Snapshot == <<NonDigit>>

\* "1.21.8-rc1": the last part is dropped, parse_version gives (1, 21).
ReleaseCandidate == <<Digits(1), Digits(21), NonDigit>>

File(name, primary) == [filename |-> name, primary |-> primary]

Dependency(id, kind) == [project_id |-> id, dependency_type |-> kind]

Version(game_versions, loaders, files, dependencies) ==
    [game_versions |-> game_versions, loaders |-> loaders,
     files |-> files, dependencies |-> dependencies]

ResolverGameVersionLists ==
    { <<GameVersion(1, 21, 8)>>,
      <<GameVersion(1, 21, 4)>>,
      <<GameVersion(1, 21, 7)>>,
      <<GameVersion(1, 21, 4), GameVersion(1, 21, 7)>>,
      <<GameVersion(1, 21, 9)>>,
      <<Snapshot>>,
      <<ReleaseCandidate, GameVersion(1, 21, 8)>> }

ResolverVersions ==
    { Version(g, l, <<File("f.jar", TRUE)>>, <<>>) :
        g \in ResolverGameVersionLists, l \in {<<"fabric">>, <<"forge">>} }

ResolverTargets == {<<1, 21, 8>>, <<1, 21>>}

ResolverFloors == {<<1, 21, 4>>, <<>>}

ResolverLoaders == {Some("fabric"), None}

ResolverProjectTypes == {"mod", "resourcepack"}

NoReturn == [version |-> None, success |-> FALSE, branch |-> "pending"]

ResolverIdle ==
    [pc |-> "idle", versions |-> None, target_version |-> <<>>, loader |-> None,
     fallback_bound |-> <<>>, project_type |-> "", indexed |-> FALSE,
     ret |-> NoReturn, answer |-> ""]

InitResolver ==
    /\ request = RequestIdle
    /\ OrchestratorIdle
    /\ \E vs \in {None} \cup {Some(l) : l \in BoundedSeq(ResolverVersions, MaxVersions)},
          t \in ResolverTargets, f \in ResolverFloors, l \in ResolverLoaders,
          p \in ResolverProjectTypes, ix \in BOOLEAN :
          resolver = [pc |-> "call", versions |-> vs, target_version |-> t, loader |-> l,
                      fallback_bound |-> f, project_type |-> p, indexed |-> ix,
                      ret |-> NoReturn, answer |-> ""]

\* Line 278: the call returns.
GetLatestVersion ==
    /\ resolver.pc = "call"
    /\ resolver' = [resolver EXCEPT
           !.ret = get_latest_version(resolver.versions, resolver.target_version,
                                      resolver.loader, resolver.fallback_bound,
                                      resolver.project_type),
           !.pc = "returned"]
    /\ UNCHANGED <<request, orchestratorVars>>

\* Lines 281-287: without success the branch ends (line 282 raises on a None version).
NoVersionFound ==
    /\ resolver.pc = "returned"
    /\ ~resolver.ret.success
    /\ resolver' = [resolver EXCEPT
           !.pc = IF resolver.ret.version = None THEN "raised" ELSE "no_version"]
    /\ UNCHANGED <<request, orchestratorVars>>

\* Lines 311-325: the fallback check and the already-present check.
FallbackCheck ==
    /\ resolver.pc = "returned"
    /\ resolver.ret.success
    /\ resolver' = [resolver EXCEPT
           !.pc = IF NeedsFallbackPrompt(resolver.ret.version[1], resolver.target_version,
                                         resolver.indexed)
                  THEN "prompt"
                  ELSE IF resolver.indexed THEN "skipped" ELSE "use"]
    /\ UNCHANGED <<request, orchestratorVars>>

\* Lines 313-318: the operator answers the fallback prompt.
AnswerFallback ==
    /\ resolver.pc = "prompt"
    /\ \E answer \in OperatorAnswers :
          resolver' = [resolver EXCEPT
              !.answer = answer,
              !.pc = IF AcceptsFallback(answer) THEN "use" ELSE "declined"]
    /\ UNCHANGED <<request, orchestratorVars>>

NextResolver ==
    \/ GetLatestVersion
    \/ NoVersionFound
    \/ FallbackCheck
    \/ AnswerFallback

-----------------------------------------------------------------------------
(* SpecRequest: ModrinthClient._request_with_retries *)

MAX_RETRIES == 5

\* RATE_LIMIT_DELAY = (0.4, 1.2) seconds, in milliseconds; random.uniform draws
\* from the whole interval, sampled here at its ends and its middle.
RATE_LIMIT_DELAY == {400, 800, 1200}

\* e.headers.get("Retry-After", 2): the header is absent or names some seconds.
RetryAfterHeaders == {None, Some(7)}

\* _retry_backoff: min(2 ** attempt, 30), in seconds.
_retry_backoff(attempt) == Min(2 ^ attempt, 30)

\* A loop running one attempt more than range(self.MAX_RETRIES).
LoopContinuesOffByOne(attempt) == attempt <= MAX_RETRIES

\* for attempt in range(self.MAX_RETRIES): the loop body runs for this attempt.
LoopContinues(attempt) == attempt < MAX_RETRIES

InitRequest ==
    /\ resolver = ResolverIdle
    /\ OrchestratorIdle
    /\ \E action \in {"GET", "DOWNLOAD"} :
          request = [RequestIdle EXCEPT !.pc = "start", !.action = action]

Sleep(kind, amount) == [kind |-> kind, amount |-> amount]

\* Line 92: the pacing delay is drawn.
StartRequest ==
    /\ request.pc = "start"
    /\ \E delay \in RATE_LIMIT_DELAY :
          request' = [request EXCEPT !.pc = "loop", !.delay = delay]
    /\ UNCHANGED <<resolver, orchestratorVars>>

\* One more attempt made, with its outcome.
Attempted(outcome) ==
    [request EXCEPT !.attempts = @ + 1, !.outcomes = Append(@, outcome)]

\* Lines 95-102: the transfer succeeds; GET returns the JSON, DOWNLOAD returns
\* nothing (None).
AttemptSucceeds ==
    /\ request.pc = "loop"
    /\ LoopContinues(request.attempt)
    /\ request' = [Attempted("ok") EXCEPT
           !.sleeps = Append(@, Sleep("pacing", request.delay)),
           !.ret = IF request.action = "GET" THEN "json" ELSE "None",
           !.pc = "returned"]
    /\ UNCHANGED <<resolver, orchestratorVars>>

\* Lines 104-108: HTTP 429.
AttemptThrottled ==
    /\ request.pc = "loop"
    /\ LoopContinues(request.attempt)
    /\ \E header \in RetryAfterHeaders, delay \in RATE_LIMIT_DELAY :
          request' = [Attempted("429") EXCEPT
              !.sleeps = Append(@, Sleep("retry_after",
                                         IF header = None THEN 2 ELSE header[1])),
              !.delay = delay,
              !.attempt = @ + 1]
    /\ UNCHANGED <<resolver, orchestratorVars>>

\* Lines 109-112: HTTP 408.
AttemptServerTimeout ==
    /\ request.pc = "loop"
    /\ LoopContinues(request.attempt)
    /\ request' = [Attempted("408") EXCEPT
           !.delay = Max(100, request.delay \div 2),
           !.sleeps = Append(@, Sleep("backoff", _retry_backoff(request.attempt))),
           !.attempt = @ + 1]
    /\ UNCHANGED <<resolver, orchestratorVars>>

\* Lines 113-115, 122-123: any other HTTP status breaks out of the loop; the
\* failure is printed and None returned.
AttemptHttpError ==
    /\ request.pc = "loop"
    /\ LoopContinues(request.attempt)
    /\ request' = [Attempted("http") EXCEPT !.ret = "None", !.pc = "failed"]
    /\ UNCHANGED <<resolver, orchestratorVars>>

\* Lines 116-121: URLError (client timeout or network failure).
AttemptUrlError ==
    /\ request.pc = "loop"
    /\ LoopContinues(request.attempt)
    /\ request' = [Attempted("urlerror") EXCEPT
           !.sleeps = Append(@, Sleep("backoff", _retry_backoff(request.attempt))),
           !.attempt = @ + 1]
    /\ UNCHANGED <<resolver, orchestratorVars>>

\* Lines 122-123: the loop ran out of attempts.
RetriesExhausted ==
    /\ request.pc = "loop"
    /\ ~LoopContinues(request.attempt)
    /\ request' = [request EXCEPT !.ret = "None", !.pc = "failed"]
    /\ UNCHANGED <<resolver, orchestratorVars>>

NextRequest ==
    \/ StartRequest
    \/ AttemptSucceeds
    \/ AttemptThrottled
    \/ AttemptServerTimeout
    \/ AttemptHttpError
    \/ AttemptUrlError
    \/ RetriesExhausted

-----------------------------------------------------------------------------
(* The remote service: projects, their versions, collections *)

\* The run's target configuration: sys.argv of lines 16-22, parsed by main().
ArgsVersion == <<1, 21, 8>>

ArgsLoader == Some("fabric")

ArgsFallbackBound == <<1, 21, 4>>

Projects == {"A", "B", "D", "E", "F", "M", "N", "P", "Q", "Z"}

\* GET /v2/project/{id}: title and project_type.
ProjectType(id) ==
    CASE id = "M" -> "modpack"
      [] OTHER    -> "mod"

\* GET /v2/project/{id}/version, newest first.
\*   A  lists the target; requires B, optionally E, requires D
\*   B  has versions for 1.21.4 and 1.21.7 only (a fallback); requires A (a cycle)
\*   D  is a mod whose version carries the datapack loader tag
\*   E  lists the target; its file name has a blank
\*   F  lists the target; its file name is the one E's file name normalises to
\*   M  is a modpack, a type with no index file
\*   N  has only a version above the target
\*   P  has a compatible version with no primary file
\*   Q  has only a version below the fallback floor
\*   Z  has no version at all
ProjectVersions(id) ==
    CASE id = "A" ->
           << Version(<<GameVersion(1, 21, 8)>>, <<"fabric">>,
                      <<File("a src.jar", FALSE), File("a 2.jar", TRUE)>>,
                      <<Dependency("B", "required"), Dependency("E", "optional"),
                        Dependency("D", "required")>>) >>
      [] id = "B" ->
           << Version(<<GameVersion(1, 21, 4)>>, <<"fabric">>,
                      <<File("b4.jar", TRUE)>>, <<>>),
              Version(<<GameVersion(1, 21, 7)>>, <<"fabric">>,
                      <<File("b7.jar", TRUE)>>, <<Dependency("A", "required")>>) >>
      [] id = "D" ->
           << Version(<<GameVersion(1, 21, 8)>>, <<"datapack">>,
                      <<File("d.zip", TRUE)>>, <<>>) >>
      [] id = "E" ->
           << Version(<<ReleaseCandidate, GameVersion(1, 21, 8)>>, <<"fabric">>,
                      <<File("e 1.jar", TRUE)>>, <<>>) >>
      [] id = "F" ->
           << Version(<<GameVersion(1, 21, 8)>>, <<"fabric">>,
                      <<File("e_1.jar", TRUE)>>, <<>>) >>
      [] id = "M" ->
           << Version(<<GameVersion(1, 21, 8)>>, <<"fabric">>,
                      <<File("m.mrpack", TRUE)>>, <<>>) >>
      [] id = "N" ->
           << Version(<<GameVersion(1, 21, 9)>>, <<"fabric">>,
                      <<File("n.jar", TRUE)>>, <<>>) >>
      [] id = "P" ->
           << Version(<<GameVersion(1, 21, 8)>>, <<"fabric">>,
                      <<File("p.jar", FALSE)>>, <<>>) >>
      [] id = "Q" ->
           << Version(<<GameVersion(1, 21, 2)>>, <<"fabric">>,
                      <<File("q.jar", TRUE)>>, <<>>) >>
      [] id = "Z" -> << >>

\* GET /v3/collection/{id}: the collections the runs are checked on.
Collections == { <<"A", "B">>, <<"E", "F">>, <<"M", "P">>, <<"N", "Q", "Z">> }

-----------------------------------------------------------------------------
(* File names, directories, index files *)

\* normalize_filename: every character outside [\w\-+.] becomes "_".
normalize_filename(name) ==
    CASE name = "a 2.jar"   -> "a_2.jar"
      [] name = "a src.jar" -> "a_src.jar"
      [] name = "e 1.jar"   -> "e_1.jar"
      [] OTHER              -> name

\* The file names of the model, in the order sorted() gives them.
SortedFileNames ==
    <<"a1.jar", "a_2.jar", "b4.jar", "b7.jar", "d.zip", "e_1.jar", "gone.jar",
      "m.mrpack", "x.jar">>

\* fname.endswith(".jar") or fname.endswith(".zip")
IsContentFile(fname) == fname \notin {"m.mrpack"}

\* INDEX_FILES.get(index_type): None for a type with no index file.
INDEX_FILES(index_type) ==
    CASE index_type = "mod"          -> Some("mods_index.json")
      [] index_type = "datapack"     -> Some("datapacks_index.json")
      [] index_type = "resourcepack" -> Some("resourcepacks_index.json")
      [] index_type = "shaderpack"   -> Some("shaderpacks_index.json")
      [] index_type = "shader"       -> Some("shaderpacks_index.json")
      [] OTHER                       -> None

IndexFileNames ==
    {"mods_index.json", "datapacks_index.json", "resourcepacks_index.json",
     "shaderpacks_index.json"}

\* resolve_target_directory: the type ("shader" read as "shaderpack") plus "s".
resolve_target_directory(project_type) ==
    CASE project_type = "mod"          -> "mods"
      [] project_type = "datapack"     -> "datapacks"
      [] project_type = "resourcepack" -> "resourcepacks"
      [] project_type = "shaderpack"   -> "shaderpacks"
      [] project_type = "shader"       -> "shaderpacks"
      [] project_type = "modpack"      -> "modpacks"

\* The categories main() walks, in order (lines 373 and 379).
Categories == <<"mod", "datapack", "resourcepack", "shaderpack">>

\* An index is a dict, which keeps insertion order: a sequence of entries with
\* distinct file names.
Entry(fname, id) == [filename |-> fname, id |-> id]

IndexKeys(ix) == {ix[i].filename : i \in 1..Len(ix)}

\* index.get(fname)
IndexGet(ix, fname) ==
    IF fname \in IndexKeys(ix)
    THEN Some((CHOOSE e \in Range(ix) : e.filename = fname).id)
    ELSE None

\* index[fname] = id: an existing key keeps its place, a new one goes last.
IndexSet(ix, fname, id) ==
    IF fname \in IndexKeys(ix)
    THEN [i \in 1..Len(ix) |-> IF ix[i].filename = fname THEN Entry(fname, id) ELSE ix[i]]
    ELSE Append(ix, Entry(fname, id))

\* index.pop(fname, None) and del index[fname]
IndexPop(ix, fname) == SelectSeq(ix, LAMBDA e : e.filename # fname)

\* Line 309: the first file name of the index that maps to mod_id and is not filename.
OldFilename(ix, mod_id, filename) ==
    LET hits == SelectSeq(ix, LAMBDA e : e.id = mod_id /\ e.filename # filename)
    IN  IF hits = <<>> THEN None ELSE Some(Head(hits).filename)

\* load_index for a type that has an index file ({} when the file does not exist).
load_index(index_type) == index[INDEX_FILES(index_type)[1]]

\* os.listdir(directory)
ListDir(directory) == {f[2] : f \in {g \in disk.files : g[1] = directory}}

\* os.makedirs(directory, exist_ok=True)
MakeDirs(d, directory) == [d EXCEPT !.dirs = @ \cup {directory}]

-----------------------------------------------------------------------------
(* main(): start, manual-addition reconciler, collection fetch, pool *)

\* The pool threads of the model (the executor allows max_workers=5).
NumWorkers == 2

Workers == 1..NumWorkers

LogTypes == {"downloaded", "updated", "no_version", "skipped"}

\* download_project is not running on this thread.
IdleWorker ==
    [pc |-> "idle", stack |-> <<>>, mod_id |-> "", project_type |-> "",
     version |-> None, filename |-> "", existing_id |-> None, old_filename |-> None,
     removed |-> FALSE, response |-> None, loaded |-> <<>>, deps |-> <<>>]

\* What the run has done so far: download_file calls and passes of the dedup
\* guard per project id, the lines of the four log files per project id, the
\* projects whose branch raised, and whether every fetch, transfer and prompt of
\* this and the earlier run went well.
NoHistory ==
    [downloads |-> [p \in Projects |-> 0],
     passes    |-> [p \in Projects |-> 0],
     log       |-> [t \in LogTypes |-> [p \in Projects |-> 0]],
     raised    |-> {},
     clean     |-> TRUE]

\* The local state a first run may find: nothing; an index with the old file of A
\* and an entry whose file is gone; two files nobody indexed.
LocalStates ==
    { [index |-> <<>>, files |-> {}],
      [index |-> <<Entry("a1.jar", "A"), Entry("gone.jar", "B")>>, files |-> {"a1.jar"}],
      [index |-> <<>>, files |-> {"a1.jar", "x.jar"}] }

\* What the operator types at the reconciler's prompt: nothing, or a project id.
ManualAnswers == {"", " A"}

\* safe_input(...).strip()
Strip(answer) == IF answer = " A" THEN "A" ELSE answer

MainAt(at, i) == [at |-> at, i |-> i]

Init ==
    /\ resolver = ResolverIdle
    /\ request = RequestIdle
    /\ main_pc = MainAt("start", 0)
    /\ run = "first"
    /\ collection \in Collections
    /\ \E local \in LocalStates :
          /\ index = [f \in IndexFileNames |->
                         IF f = "mods_index.json" THEN local.index ELSE <<>>]
          /\ disk = [dirs  |-> IF local.files = {} THEN {} ELSE {"mods"},
                     files |-> {<<"mods", f>> : f \in local.files}]
    /\ seen_mods = {}
    /\ file_lock = NoWorker
    /\ work_queue = <<>>
    /\ workers = [w \in Workers |-> IdleWorker]
    /\ input_queue = <<>>
    /\ console = None
    /\ history = NoHistory

\* Lines 364-376: the dispatcher threads start, the four content directories are
\* made, the log files are emptied.
MainStart ==
    /\ main_pc.at = "start"
    /\ disk' = [disk EXCEPT !.dirs = @ \cup {resolve_target_directory(Categories[i]) :
                                                i \in 1..Len(Categories)}]
    /\ history' = [history EXCEPT !.log = NoHistory.log]
    /\ main_pc' = MainAt("scan", 1)
    /\ UNCHANGED <<resolver, request, run, collection, index, seen_mods, file_lock,
                   work_queue, workers, input_queue, console>>

\* The loop of lines 192-200 over the new files, with the operator's answers.
RECURSIVE AddManual(_, _, _)
AddManual(ix, new_files, answers) ==
    IF new_files = <<>> THEN ix
    ELSE AddManual(IF Strip(Head(answers)) # ""
                   THEN IndexSet(ix, Head(new_files), Strip(Head(answers)))
                   ELSE ix,
                   Tail(new_files), Tail(answers))

\* scan_manual_additions(index_type), one call of the loop of lines 379-380. The
\* main thread is the only one running; its prompts are answered one after the other.
ScanManualAdditions ==
    /\ main_pc.at = "scan"
    /\ LET index_type == Categories[main_pc.i]
           directory == resolve_target_directory(index_type)
           actual_files == {f \in ListDir(directory) : IsContentFile(f)}
           kept == SelectSeq(load_index(index_type), LAMBDA e : e.filename \in actual_files)
           new_files == SelectSeq(SortedFileNames,
                                  LAMBDA f : f \in actual_files /\ f \notin IndexKeys(kept))
       IN  /\ \E answers \in [1..Len(new_files) -> ManualAnswers] :
                 index' = [index EXCEPT ![INDEX_FILES(index_type)[1]] =
                                            AddManual(kept, new_files, answers)]
           /\ disk' = MakeDirs(disk, directory)
    /\ main_pc' = IF main_pc.i < Len(Categories)
                  THEN MainAt("scan", main_pc.i + 1)
                  ELSE MainAt("get_collection", 0)
    /\ UNCHANGED <<resolver, request, run, collection, seen_mods, file_lock,
                   work_queue, workers, input_queue, console, history>>

\* Lines 382-393: the collection is fetched; on None main() returns, else the
\* seen-set is created and every project id is submitted to the executor.
GetCollection ==
    /\ main_pc.at = "get_collection"
    /\ \E fetched \in BOOLEAN :
          IF fetched
          THEN /\ seen_mods' = {}
               /\ work_queue' = collection
               /\ main_pc' = MainAt("pool", 0)
               /\ UNCHANGED history
          ELSE /\ main_pc' = MainAt("done", 0)
               /\ history' = [history EXCEPT !.clean = FALSE]
               /\ UNCHANGED <<seen_mods, work_queue>>
    /\ UNCHANGED <<resolver, request, run, collection, index, disk, file_lock,
                   workers, input_queue, console>>

\* Lines 392-401: leaving the with block waits for every task; then the
\* dispatchers are stopped and main() returns.
PoolJoin ==
    /\ main_pc.at = "pool"
    /\ work_queue = <<>>
    /\ \A w \in Workers : workers[w].pc = "idle"
    /\ main_pc' = MainAt("done", 0)
    /\ UNCHANGED <<resolver, request, run, collection, index, disk, seen_mods, file_lock,
                   work_queue, workers, input_queue, console, history>>

\* The program is started a second time: same remote, the local state as it is.
RunAgain ==
    /\ main_pc.at = "done"
    /\ run = "first"
    /\ run' = "second"
    /\ main_pc' = MainAt("start", 0)
    /\ seen_mods' = {}
    /\ history' = [NoHistory EXCEPT !.clean = history.clean]
    /\ UNCHANGED <<resolver, request, collection, index, disk, file_lock,
                   work_queue, workers, input_queue, console>>

-----------------------------------------------------------------------------
(* download_project on a pool thread *)

\* download_project returns: the caller's loop over its dependencies goes on, or
\* the task is over.
Returned(wr) ==
    IF wr.stack = <<>> THEN IdleWorker
    ELSE [IdleWorker EXCEPT !.pc = "deps",
                            !.stack = SubSeq(wr.stack, 1, Len(wr.stack) - 1),
                            !.mod_id = wr.stack[Len(wr.stack)].mod_id,
                            !.deps = wr.stack[Len(wr.stack)].deps]

\* An exception leaves download_project: no frame catches it, the task ends with
\* it (executor.map's results are never read, so nobody sees it).
Raised(wr) == IdleWorker

\* log_event(log_type, ...) for a project.
Logged(h, log_type, mod_id) == [h EXCEPT !.log[log_type][mod_id] = @ + 1]

\* The executor hands the next submitted project id to a free thread.
TakeTask(w) ==
    /\ main_pc.at = "pool"
    /\ workers[w].pc = "idle"
    /\ work_queue # <<>>
    /\ workers' = [workers EXCEPT ![w] = [IdleWorker EXCEPT !.pc = "guard",
                                                            !.mod_id = Head(work_queue)]]
    /\ work_queue' = Tail(work_queue)
    /\ UNCHANGED <<resolver, request, main_pc, run, collection, index, disk, seen_mods,
                   file_lock, input_queue, console, history>>

\* Lines 270-271: the test of the dedup guard.
CheckSeen(w) ==
    /\ workers[w].pc = "guard"
    /\ workers' = [workers EXCEPT ![w] = IF @.mod_id \in seen_mods
                                         THEN Returned(@)
                                         ELSE [@ EXCEPT !.pc = "add"]]
    /\ UNCHANGED <<resolver, request, main_pc, run, collection, index, disk, seen_mods,
                   file_lock, work_queue, input_queue, console, history>>

\* Line 272: seen_mods.add(mod_id).
AddSeen(w) ==
    /\ workers[w].pc = "add"
    /\ seen_mods' = seen_mods \cup {workers[w].mod_id}
    /\ history' = [history EXCEPT !.passes[workers[w].mod_id] = @ + 1]
    /\ workers' = [workers EXCEPT ![w].pc = "resolve"]
    /\ UNCHANGED <<resolver, request, main_pc, run, collection, index, disk,
                   file_lock, work_queue, input_queue, console>>

\* Line 289: the first file flagged primary, or None.
PrimaryFile(version) ==
    LET primaries == SelectSeq(version.files, LAMBDA f : f.primary)
    IN  IF primaries = <<>> THEN None ELSE Some(Head(primaries))

\* Lines 274-303: the details and the versions are fetched (each fetch gives its
\* JSON or, after the client gave up, None), the version is resolved, the primary
\* file and the directory are found and the directory is made.
\*   line 276 raises when the details are None;
\*   line 282 raises when there is no success and no version at all.
Resolve(w) ==
    /\ workers[w].pc = "resolve"
    /\ \E details_ok \in BOOLEAN, versions_ok \in BOOLEAN :
        LET mod_id == workers[w].mod_id
            got == get_latest_version(
                       IF versions_ok THEN Some(ProjectVersions(mod_id)) ELSE None,
                       ArgsVersion, ArgsLoader, ArgsFallbackBound, ProjectType(mod_id))
            project_type ==
                IF got.version # None /\ "datapack" \in Range(got.version[1].loaders)
                THEN "datapack" ELSE ProjectType(mod_id)
            file == PrimaryFile(got.version[1])
            fetched == [history EXCEPT !.clean = @ /\ details_ok /\ versions_ok]
        IN  IF ~details_ok \/ (~got.success /\ got.version = None)
            THEN /\ details_ok \/ versions_ok
                 /\ workers' = [workers EXCEPT ![w] = Raised(@)]
                 /\ history' = [fetched EXCEPT !.raised = @ \cup {mod_id}]
                 /\ UNCHANGED disk
            ELSE IF ~got.success
            THEN /\ workers' = [workers EXCEPT ![w] = Returned(@)]
                 /\ history' = Logged(fetched, "no_version", mod_id)
                 /\ UNCHANGED disk
            ELSE IF file = None
            THEN /\ workers' = [workers EXCEPT ![w] = Returned(@)]
                 /\ history' = fetched
                 /\ UNCHANGED disk
            ELSE /\ workers' = [workers EXCEPT
                        ![w].pc = "lock_load",
                        ![w].project_type = project_type,
                        ![w].version = got.version,
                        ![w].filename = normalize_filename(file[1].filename)]
                 /\ disk' = MakeDirs(disk, resolve_target_directory(project_type))
                 /\ history' = fetched
    /\ UNCHANGED <<resolver, request, main_pc, run, collection, index, seen_mods,
                   file_lock, work_queue, input_queue, console>>

\* A lock any thread can take at any time.
LockAlwaysFree(lock) == TRUE

\* threading.Lock: acquire goes through only while no thread holds the lock.
LockFree(lock) == lock = NoWorker

\* A lock taken with acquire() and never released.
KeepLock(holder) == holder

\* Leaving a with file_lock block, by its end or by an exception, releases the lock.
ReleaseLock(holder) == NoWorker

\* Line 306: with file_lock.
AcquireForLoad(w) ==
    /\ workers[w].pc = "lock_load"
    /\ LockFree(file_lock)
    /\ file_lock' = w
    /\ workers' = [workers EXCEPT ![w].pc = "load"]
    /\ UNCHANGED <<resolver, request, main_pc, run, collection, index, disk, seen_mods,
                   work_queue, input_queue, console, history>>

\* Lines 307-309: the index is loaded under the lock (load_index raises for a type
\* without an index file) and the lock released; existing_id and old_filename come
\* from this snapshot.
LoadIndex(w) ==
    /\ workers[w].pc = "load"
    /\ file_lock' = ReleaseLock(file_lock)
    /\ IF INDEX_FILES(workers[w].project_type) = None
       THEN /\ workers' = [workers EXCEPT ![w] = Raised(@)]
            /\ history' = [history EXCEPT !.raised = @ \cup {workers[w].mod_id}]
       ELSE /\ workers' = [workers EXCEPT
                   ![w].pc = "gate",
                   ![w].existing_id = IndexGet(load_index(workers[w].project_type),
                                               workers[w].filename),
                   ![w].old_filename = OldFilename(load_index(workers[w].project_type),
                                                   workers[w].mod_id, workers[w].filename)]
            /\ UNCHANGED history
    /\ UNCHANGED <<resolver, request, main_pc, run, collection, index, disk, seen_mods,
                   work_queue, input_queue, console>>

\* Lines 312-325: the fallback check puts a prompt on input_queue and waits
\* (safe_input); without a prompt, a file already indexed for this id is skipped,
\* any other goes on to the transfer.
FallbackGate(w) ==
    /\ workers[w].pc = "gate"
    /\ LET wr == workers[w]
           existing_is_mod == wr.existing_id = Some(wr.mod_id)
       IN  IF NeedsFallbackPrompt(wr.version[1], ArgsVersion, existing_is_mod)
           THEN /\ input_queue' = Append(input_queue, [worker |-> w])
                /\ workers' = [workers EXCEPT ![w].pc = "wait"]
                /\ UNCHANGED history
           ELSE IF existing_is_mod
           THEN /\ workers' = [workers EXCEPT ![w] = Returned(@)]
                /\ history' = Logged(history, "skipped", wr.mod_id)
                /\ UNCHANGED input_queue
           ELSE /\ workers' = [workers EXCEPT ![w].pc = "transfer"]
                /\ UNCHANGED <<input_queue, history>>
    /\ UNCHANGED <<resolver, request, main_pc, run, collection, index, disk, seen_mods,
                   file_lock, work_queue, console>>

\* Line 63: the console dispatcher takes the next prompt and shows it.
DispatcherTake ==
    /\ console = None
    /\ input_queue # <<>>
    /\ console' = Some(Head(input_queue))
    /\ input_queue' = Tail(input_queue)
    /\ UNCHANGED <<resolver, request, main_pc, run, collection, index, disk, seen_mods,
                   file_lock, work_queue, workers, history>>

\* One response queue shared by every caller: the first thread reads it.
SharedResponseQueue(prompt_request) == 1

\* Line 81: each safe_input call makes its own response queue, which only the
\* calling thread reads.
response_queue(prompt_request) == prompt_request.worker

\* Lines 64-66: the operator answers; the answer goes to the response queue of the
\* request.
DispatcherRespond ==
    /\ console # None
    /\ \E answer \in OperatorAnswers :
          workers' = [workers EXCEPT ![response_queue(console[1])].response = Some(answer)]
    /\ console' = None
    /\ UNCHANGED <<resolver, request, main_pc, run, collection, index, disk, seen_mods,
                   file_lock, work_queue, input_queue, history>>

\* Lines 83, 313-318: safe_input returns; a declined fallback is logged and the
\* branch ends.
ReceiveResponse(w) ==
    /\ workers[w].pc = "wait"
    /\ workers[w].response # None
    /\ IF AcceptsFallback(workers[w].response[1])
       THEN /\ workers' = [workers EXCEPT ![w].pc = "transfer", ![w].response = None]
            /\ UNCHANGED history
       ELSE /\ workers' = [workers EXCEPT ![w] = Returned(@)]
            /\ history' = [Logged(history, "no_version", workers[w].mod_id)
                              EXCEPT !.clean = FALSE]
    /\ UNCHANGED <<resolver, request, main_pc, run, collection, index, disk, seen_mods,
                   file_lock, work_queue, input_queue, console>>

\* Lines 328-329: download_file; the file lands, or the client gave up and
\* returned None, which download_file drops.
Transfer(w) ==
    /\ workers[w].pc = "transfer"
    /\ \E landed \in BOOLEAN :
        /\ disk' = IF landed
                   THEN [disk EXCEPT !.files = @ \cup
                            {<<resolve_target_directory(workers[w].project_type),
                               workers[w].filename>>}]
                   ELSE disk
        /\ history' = [history EXCEPT !.downloads[workers[w].mod_id] = @ + 1,
                                      !.clean = @ /\ landed]
    /\ workers' = [workers EXCEPT ![w].pc = IF workers[w].old_filename # None
                                            THEN "remove_old" ELSE "lock_record"]
    /\ UNCHANGED <<resolver, request, main_pc, run, collection, index, seen_mods,
                   file_lock, work_queue, input_queue, console>>

\* Lines 331-335: the old file is removed if it is there.
RemoveOld(w) ==
    /\ workers[w].pc = "remove_old"
    /\ LET old_path == <<resolve_target_directory(workers[w].project_type),
                         workers[w].old_filename[1]>>
       IN  IF old_path \in disk.files
           THEN /\ disk' = [disk EXCEPT !.files = @ \ {old_path}]
                /\ workers' = [workers EXCEPT ![w].pc = "lock_record", ![w].removed = TRUE]
           ELSE /\ workers' = [workers EXCEPT ![w].pc = "lock_record"]
                /\ UNCHANGED disk
    /\ UNCHANGED <<resolver, request, main_pc, run, collection, index, seen_mods,
                   file_lock, work_queue, input_queue, console, history>>

\* Line 338: with file_lock.
AcquireForRecord(w) ==
    /\ workers[w].pc = "lock_record"
    /\ LockFree(file_lock)
    /\ file_lock' = w
    /\ workers' = [workers EXCEPT ![w].pc = "reload"]
    /\ UNCHANGED <<resolver, request, main_pc, run, collection, index, disk, seen_mods,
                   work_queue, input_queue, console, history>>

\* Line 339: under the lock the index is loaded again.
ReloadIndex(w) ==
    /\ workers[w].pc = "reload"
    /\ workers' = [workers EXCEPT ![w].pc = "record",
                                  ![w].loaded = load_index(workers[w].project_type)]
    /\ UNCHANGED <<resolver, request, main_pc, run, collection, index, disk, seen_mods,
                   file_lock, work_queue, input_queue, console, history>>

\* Lines 340-349: still under the lock the old entry is popped from the loaded
\* index, the event logged, the new entry set and the index saved; the lock is
\* released.
Record(w) ==
    /\ workers[w].pc = "record"
    /\ LET wr == workers[w]
           loaded == wr.loaded
           popped == IF wr.old_filename # None
                     THEN IndexPop(loaded, wr.old_filename[1]) ELSE loaded
       IN  /\ index' = [index EXCEPT ![INDEX_FILES(wr.project_type)[1]] =
                                         IndexSet(popped, wr.filename, wr.mod_id)]
           /\ history' = Logged(history,
                                IF wr.old_filename # None THEN "updated" ELSE "downloaded",
                                wr.mod_id)
           /\ workers' = [workers EXCEPT ![w].pc = "deps",
                                         ![w].loaded = <<>>,
                                         ![w].deps = wr.version[1].dependencies]
    /\ file_lock' = ReleaseLock(file_lock)
    /\ UNCHANGED <<resolver, request, main_pc, run, collection, disk, seen_mods,
                   work_queue, input_queue, console>>

\* A test that follows every dependency, whatever its kind.
FollowsAnyDependency(dep) == TRUE

\* Line 353: dep["dependency_type"] == "required"
IsRequired(dep) == dep.dependency_type = "required"

\* Lines 352-354: the next dependency; a required one is a call of
\* download_project on this thread, the others are passed over; after the last,
\* download_project returns.
NextDependency(w) ==
    /\ workers[w].pc = "deps"
    /\ LET wr == workers[w]
       IN  workers' = [workers EXCEPT ![w] =
               IF wr.deps = <<>> THEN Returned(wr)
               ELSE IF IsRequired(Head(wr.deps))
               THEN [IdleWorker EXCEPT
                        !.pc = "guard",
                        !.mod_id = Head(wr.deps).project_id,
                        !.stack = Append(wr.stack, [mod_id |-> wr.mod_id,
                                                    deps |-> Tail(wr.deps)])]
               ELSE [wr EXCEPT !.deps = Tail(wr.deps)]]
    /\ UNCHANGED <<resolver, request, main_pc, run, collection, index, disk, seen_mods,
                   file_lock, work_queue, input_queue, console, history>>

Next ==
    \/ MainStart
    \/ ScanManualAdditions
    \/ GetCollection
    \/ PoolJoin
    \/ RunAgain
    \/ DispatcherTake
    \/ DispatcherRespond
    \/ \E w \in Workers :
          \/ TakeTask(w)
          \/ CheckSeen(w)
          \/ AddSeen(w)
          \/ Resolve(w)
          \/ AcquireForLoad(w)
          \/ LoadIndex(w)
          \/ FallbackGate(w)
          \/ ReceiveResponse(w)
          \/ Transfer(w)
          \/ RemoveOld(w)
          \/ AcquireForRecord(w)
          \/ ReloadIndex(w)
          \/ Record(w)
          \/ NextDependency(w)

-----------------------------------------------------------------------------
(* Specifications *)

SpecResolver == InitResolver /\ [][NextResolver]_vars

SpecRequest == InitRequest /\ [][NextRequest]_vars

Spec == Init /\ [][Next]_vars

\* The steps of the main thread within one run, of the console dispatcher thread
\* and of one pool thread.
MainStep == MainStart \/ ScanManualAdditions \/ GetCollection \/ PoolJoin

DispatcherStep == DispatcherTake \/ DispatcherRespond

WorkerStep(w) ==
    \/ TakeTask(w)
    \/ CheckSeen(w)
    \/ AddSeen(w)
    \/ Resolve(w)
    \/ AcquireForLoad(w)
    \/ LoadIndex(w)
    \/ FallbackGate(w)
    \/ ReceiveResponse(w)
    \/ Transfer(w)
    \/ RemoveOld(w)
    \/ AcquireForRecord(w)
    \/ ReloadIndex(w)
    \/ Record(w)
    \/ NextDependency(w)

\* One run of main(), started on any of the collections and local states.
NextRun == MainStep \/ DispatcherStep \/ \E w \in Workers : WorkerStep(w)

\* Every thread that can run does run: the interpreter switches between runnable
\* threads, every network call returns (Resolve, Transfer) and the operator
\* answers every prompt shown (DispatcherRespond).
SpecFair ==
    /\ Init
    /\ [][NextRun]_vars
    /\ WF_vars(MainStep)
    /\ WF_vars(DispatcherStep)
    /\ \A w \in Workers : WF_vars(WorkerStep(w))

-----------------------------------------------------------------------------
(* Properties of the API client (SpecRequest) *)

\* C4 as stated: whenever a request ends in the terminal null result, exactly
\* MAX_RETRIES attempts were made.
C4_FailureTakesMaxRetries ==
    request.pc = "failed" => request.attempts = MAX_RETRIES

\* C4, amended: a request never makes more than MAX_RETRIES attempts; one that ends
\* in the terminal null result had no successful attempt and returns None; it made
\* exactly MAX_RETRIES attempts when every failure was retryable (429, 408,
\* URLError), and it stopped at its first other HTTP status error, without retry.
C4_RetryBound ==
    /\ request.attempts <= MAX_RETRIES
    /\ request.attempts = Len(request.outcomes)
    /\ request.pc = "failed" =>
          /\ request.ret = "None"
          /\ "ok" \notin Range(request.outcomes)
          /\ IF "http" \in Range(request.outcomes)
             THEN /\ request.outcomes[Len(request.outcomes)] = "http"
                  /\ \A i \in 1..(Len(request.outcomes) - 1) : request.outcomes[i] # "http"
             ELSE request.attempts = MAX_RETRIES

\* Five retryable failures in a row ended in the terminal null.
C4_Witness ==
    /\ request.pc = "failed"
    /\ request.attempts = MAX_RETRIES
    /\ Range(request.outcomes) = {"429", "408", "urlerror"}

\* The failures before attempt i that were not rate-limit responses.
EarlierFailures(i) == {j \in 1..(i - 1) : request.outcomes[j] # "429"}

\* C17: a 429 is followed by a wait of the Retry-After seconds (2 without the
\* header) and a freshly drawn pacing delay, and the backoff after a 408 or a
\* transport error is min(2^n, 30) for the number n of earlier failures of the
\* request that were not 429 responses.
C17_BackoffIgnoresThrottling ==
    /\ request.delay \in RATE_LIMIT_DELAY \cup {0, 100, 200, 300, 600}
    /\ \A i \in 1..Len(request.sleeps) :
          /\ request.outcomes[i] = "429" =>
                /\ request.sleeps[i].kind = "retry_after"
                /\ request.sleeps[i].amount \in {2, 7}
          /\ request.outcomes[i] \in {"408", "urlerror"} =>
                /\ request.sleeps[i].kind = "backoff"
                /\ request.sleeps[i].amount = _retry_backoff(Cardinality(EarlierFailures(i)))

-----------------------------------------------------------------------------
(* Properties of the resolver (SpecResolver) *)

ResolverReturned == resolver.pc \notin {"idle", "call"}

\* The version list passed to the resolver ([] when the fetch gave None).
ResolverList == IF resolver.versions = None THEN <<>> ELSE resolver.versions[1]

\* The target tuple is one of the tuples of the version's game-version list.
TargetAppearsIn(v) ==
    \E k \in 1..Len(v.game_versions) :
        parse_version(v.game_versions[k]) = resolver.target_version

ResolverCompatible(v) ==
    is_compatible(v, resolver.loader, resolver.fallback_bound,
                  resolver.target_version, resolver.project_type)

\* C6: a version returned through the exact-match branch lists the target tuple,
\* and the exact-match branch is taken whenever some compatible version lists it.
C6_ExactMatch ==
    ResolverReturned =>
        /\ resolver.ret.branch = "exact" =>
              /\ resolver.ret.version # None
              /\ resolver.ret.success
              /\ TargetAppearsIn(resolver.ret.version[1])
        /\ (\E i \in 1..Len(ResolverList) :
               ResolverCompatible(ResolverList[i]) /\ TargetAppearsIn(ResolverList[i]))
           => resolver.ret.branch = "exact"

\* An exact match found behind a compatible version that does not list the target.
C6_Witness ==
    /\ resolver.pc = "returned"
    /\ resolver.ret.branch = "exact"
    /\ Len(ResolverList) = 2
    /\ ResolverCompatible(ResolverList[1])
    /\ ~TargetAppearsIn(ResolverList[1])
    /\ resolver.ret.version = Some(ResolverList[2])

\* C7: when some version of a non-empty list has a game version not exceeding the
\* target, the resolver returns a version, as a match or as a non-match.
C7_NeverNone ==
    ( /\ ResolverReturned
      /\ \E i \in 1..Len(ResolverList) :
            \E k \in 1..Len(ResolverList[i].game_versions) :
                TupleLeq(parse_version(ResolverList[i].game_versions[k]),
                         resolver.target_version) )
    => resolver.ret.version # None

\* A non-match returned for a list whose only entry not above the target is a
\* snapshot, which parses to the empty tuple.
C7_Witness ==
    /\ resolver.pc = "returned"
    /\ resolver.ret.branch = "nonmatch"
    /\ resolver.ret.version # None
    /\ resolver.ret.version[1].game_versions = <<Snapshot>>

\* The highest game version of ResolverList[i] not exceeding the target.
HighestBelowTarget(i) ==
    MaxTuple({g \in Range(ParsedGameVersions(ResolverList[i])) :
                 TupleLeq(g, resolver.target_version)})

CompatibleIndices == {i \in 1..Len(ResolverList) : ResolverCompatible(ResolverList[i])}

\* C8: when compatible versions exist and none lists the target, the resolver
\* returns, as a match, the compatible version whose highest game version not
\* exceeding the target is greatest, the first in list order among equals; and a
\* version that does not list the target is used only after the operator said yes.
C8_FallbackSelection ==
    /\ ( /\ ResolverReturned
         /\ CompatibleIndices # {}
         /\ \A i \in CompatibleIndices : ~TargetAppearsIn(ResolverList[i]) )
       => \E i \in CompatibleIndices :
             /\ \A j \in CompatibleIndices :
                   TupleLeq(HighestBelowTarget(j), HighestBelowTarget(i))
             /\ \A j \in CompatibleIndices :
                   j < i => HighestBelowTarget(j) # HighestBelowTarget(i)
             /\ resolver.ret = [version |-> Some(ResolverList[i]), success |-> TRUE,
                                branch |-> "fallback"]
    /\ ( /\ resolver.pc = "use"
         /\ ~TargetAppearsIn(resolver.ret.version[1]) )
       => AcceptsFallback(resolver.answer)

\* The scenario of the specification: target (1,21,8), loader fabric, floor
\* (1,21,4), versions for (1,21,4) and (1,21,7): the (1,21,7) version is used after
\* the operator confirmed.
C8_Witness ==
    /\ resolver.pc = "use"
    /\ resolver.target_version = <<1, 21, 8>>
    /\ resolver.loader = Some("fabric")
    /\ resolver.fallback_bound = <<1, 21, 4>>
    /\ resolver.project_type = "mod"
    /\ Len(ResolverList) = 2
    /\ ResolverList[1].game_versions = <<GameVersion(1, 21, 4)>>
    /\ ResolverList[2].game_versions = <<GameVersion(1, 21, 7)>>
    /\ resolver.ret.version = Some(ResolverList[2])
    /\ AcceptsFallback(resolver.answer)

-----------------------------------------------------------------------------
(* Properties of the orchestrator (Spec) *)

\* The version download_project resolves for a project when its fetches succeed.
ResolvedVersion(p) ==
    get_latest_version(Some(ProjectVersions(p)), ArgsVersion, ArgsLoader,
                       ArgsFallbackBound, ProjectType(p))

\* The projects whose record step ran in this run.
RecordedProjects ==
    {p \in Projects : history.log["downloaded"][p] + history.log["updated"][p] > 0}

\* C1: in one run the file of a project id is transferred (download_file called)
\* at most once, whatever the interleaving and the paths that reach the project.
C1_TransferredAtMostOnce ==
    \A p \in Projects : history.downloads[p] <= 1

\* C2: once the reconciler has run, no index holds two file names for one
\* project id.
C2_OneFilenamePerProject ==
    main_pc.at \in {"get_collection", "pool", "done"} =>
        \A f \in IndexFileNames :
            \A i, j \in 1..Len(index[f]) :
                index[f][i].id = index[f][j].id => i = j

\* C3: a second run against the same remote and the local state the first run
\* left, with every fetch, transfer and prompt of both runs going well, transfers
\* no file.
C3_SecondRunTransfersNothing ==
    (run = "second" /\ history.clean) =>
        \A p \in Projects : history.downloads[p] = 0

\* C5: when the run is over, every project of the collection has been visited,
\* and so has every required dependency of every project that was recorded: no
\* failure in one branch kept a sibling from being processed.
C5_SiblingsProcessed ==
    (main_pc.at = "done" /\ seen_mods # {}) =>
        /\ Range(collection) \subseteq seen_mods
        /\ \A p \in RecordedProjects :
              \A i \in 1..Len(ResolvedVersion(p).version[1].dependencies) :
                  LET dep == ResolvedVersion(p).version[1].dependencies[i]
                  IN  dep.dependency_type = "required" => dep.project_id \in seen_mods

\* C9: a record step of a branch that saw an old file name for its project id
\* comes after that branch removed exactly one old file; it replaces the old
\* entry by the new one, leaves the old file name in neither index nor directory,
\* and logs the event as updated, not downloaded.
C9_UpdateReplacesOneFile ==
    [][\A w \in Workers :
          ( /\ workers[w].pc = "record"
            /\ workers[w].old_filename # None
            /\ workers'[w].pc = "deps" )
          => LET wr == workers[w]
                 f == INDEX_FILES(wr.project_type)[1]
                 old == wr.old_filename[1]
             IN  /\ wr.removed
                 /\ IndexGet(index[f], old) = Some(wr.mod_id)
                 /\ old \notin IndexKeys(index'[f])
                 /\ <<resolve_target_directory(wr.project_type), old>> \notin disk'.files
                 /\ IndexGet(index'[f], wr.filename) = Some(wr.mod_id)
                 /\ Len(index'[f]) = Len(index[f])
                 /\ history'.log["updated"][wr.mod_id] = history.log["updated"][wr.mod_id] + 1
                 /\ history'.log["downloaded"] = history.log["downloaded"]
      ]_vars

\* download_project is running for a project on this thread, past the guard.
PastGuard(w) == workers[w].pc \notin {"idle", "guard", "add", "deps"}

\* C10: at most one invocation per project id passes the dedup guard, and no two
\* threads are past the guard for the same project id at once.
C10_GuardPassedOnce ==
    /\ \A p \in Projects : history.passes[p] <= 1
    /\ \A w1, w2 \in Workers :
          (w1 # w2 /\ PastGuard(w1) /\ PastGuard(w2))
          => workers[w1].mod_id # workers[w2].mod_id

\* The step is worker w's Resolve step.
ResolveStep(w) == workers[w].pc = "resolve" /\ workers'[w] # workers[w]

\* C11: a branch whose details fetch or version-list fetch gave None, or whose
\* version list is empty, logs a no-version-found event and returns to its
\* caller; it does not raise, transfers nothing and leaves index and disk alone.
C11_FetchFailureLogged ==
    [][\A w \in Workers :
          ( /\ ResolveStep(w)
            /\ \/ history.clean /\ ~history'.clean
               \/ ProjectVersions(workers[w].mod_id) = <<>> )
          => /\ workers'[w] = Returned(workers[w])
             /\ workers[w].mod_id \notin history'.raised
             /\ history'.log["no_version"][workers[w].mod_id]
                   = history.log["no_version"][workers[w].mod_id] + 1
             /\ history'.downloads = history.downloads
             /\ index' = index
             /\ disk' = disk
      ]_vars

\* The version the branch on thread w works with lists the target tuple.
BranchListsTarget(wr) == ArgsVersion \in Range(ParsedGameVersions(wr.version[1]))

\* Thread w holds an answer of the operator that declines the fallback.
Declined(w) ==
    /\ workers[w].pc = "wait"
    /\ workers[w].response # None
    /\ ~AcceptsFallback(workers[w].response[1])

\* C12: a branch whose version does not list the target reaches the transfer
\* only from the prompt, with the operator's answer 'y'; a declined prompt ends
\* the branch with a logged failure, index and disk as they were; a branch whose
\* version lists the target never puts up the prompt.
C12_FallbackGate ==
    [][\A w \in Workers :
          /\ ( /\ workers[w].pc # "transfer"
               /\ workers'[w].pc = "transfer"
               /\ ~BranchListsTarget(workers'[w]) )
             => /\ workers[w].pc = "wait"
                /\ workers[w].response # None
                /\ AcceptsFallback(workers[w].response[1])
          /\ ( Declined(w) /\ workers'[w] # workers[w] )
             => /\ workers'[w] = Returned(workers[w])
                /\ history'.log["no_version"][workers[w].mod_id]
                      = history.log["no_version"][workers[w].mod_id] + 1
                /\ history'.downloads = history.downloads
                /\ index' = index
                /\ disk' = disk
          /\ ( workers[w].pc = "gate" /\ workers'[w].pc = "wait" )
             => ~BranchListsTarget(workers[w])
      ]_vars

\* A fallback version on its way to the transfer, and a declined one logged.
C12_Witness ==
    /\ \E w \in Workers :
          /\ workers[w].pc = "transfer"
          /\ workers[w].mod_id = "B"
          /\ ~BranchListsTarget(workers[w])
    /\ history.log["no_version"]["B"] = 1

\* C13: in no state has a branch removed the old file of its project while the
\* new file is not in the directory.
C13_OldRemovedAfterNewLanded ==
    \A w \in Workers :
        workers[w].removed =>
            <<resolve_target_directory(workers[w].project_type), workers[w].filename>>
                \in disk.files

\* Thread w holds the lock from its reload of the index to its save.
HoldsLockForRecord(w) == workers[w].pc \in {"reload", "record"} => file_lock = w

\* The step is worker w's record step (the save of line 349).
RecordStep(w) == workers[w].pc = "record" /\ workers'[w].pc = "deps"

CategoryDirectories ==
    {resolve_target_directory(Categories[i]) : i \in 1..Len(Categories)}

\* C15: a branch whose project type is not a recognised category ends at the
\* directory check: it never goes on to the index with that type, and no
\* directory is made for it.
C15_UnknownTypeSkipped ==
    /\ \A w \in Workers :
          workers[w].pc \in {"lock_load", "load", "gate", "wait", "transfer",
                             "remove_old", "lock_record", "reload", "record"}
          => INDEX_FILES(workers[w].project_type) # None
    /\ disk.dirs \subseteq CategoryDirectories

\* C19: a record step (index entry written, downloaded or updated event logged)
\* is taken only when the transfer succeeded: the recorded file is in its directory.
C19_RecordedFileOnDisk ==
    [][\A w \in Workers :
          RecordStep(w) =>
              <<resolve_target_directory(workers[w].project_type), workers[w].filename>>
                  \in disk.files
      ]_vars

\* For every project, the required dependencies of the version resolved for it
\* (none when no version is resolved).
RequiredDependenciesOf ==
    [p \in Projects |->
        IF ResolvedVersion(p).version = None THEN {}
        ELSE LET dependencies == ResolvedVersion(p).version[1].dependencies
             IN  {dependencies[i].project_id :
                     i \in {j \in 1..Len(dependencies) :
                                dependencies[j].dependency_type = "required"}}]

RequiredDependencies(p) == RequiredDependenciesOf[p]

\* The project the frame i of thread w's call stack called download_project for.
Callee(w, i) ==
    IF i < Len(workers[w].stack) THEN workers[w].stack[i + 1].mod_id ELSE workers[w].mod_id

\* C20: download_project is invoked for a project only as a task of the pool or
\* as a required dependency of a project whose record step ran in this run: every
\* calling frame belongs to a recorded project and the callee is one of its
\* required dependencies, and every project that passed the guard is a project of
\* the collection or such a dependency.
C20_DependenciesAfterRecord ==
    /\ \A w \in Workers :
          \A i \in 1..Len(workers[w].stack) :
              /\ workers[w].stack[i].mod_id \in RecordedProjects
              /\ Callee(w, i) \in RequiredDependencies(workers[w].stack[i].mod_id)
    /\ seen_mods \subseteq
          Range(collection) \cup UNION {RequiredDependencies(p) : p \in RecordedProjects}

\* A run that recorded A and went through its dependencies: D, required, was
\* processed and E, optional, was not, while B's declined fallback kept the
\* dependencies of B from being followed on B's own branch.
C20_Witness ==
    /\ main_pc.at = "done"
    /\ "A" \in RecordedProjects
    /\ "D" \in seen_mods
    /\ "E" \notin seen_mods
    /\ history.log["no_version"]["B"] = 1

-----------------------------------------------------------------------------
(* Properties of the orchestrator under fair scheduling (SpecFair) *)

\* C16: every run of main() that starts comes to its end, every task a pool
\* thread took is finished, with all the invocations of download_project it
\* made, cycles and repeated dependencies included; and an invocation for a
\* project id already in the seen-set returns at once, changing nothing else.
C16_RunTerminates ==
    /\ (main_pc.at = "start") ~> (main_pc.at = "done")
    /\ \A w \in Workers : (workers[w].pc # "idle") ~> (workers[w].pc = "idle")
    /\ [][\A w \in Workers :
             ( /\ workers[w].pc = "guard"
               /\ workers[w].mod_id \in seen_mods
               /\ workers'[w] # workers[w] )
             => /\ workers'[w] = Returned(workers[w])
                /\ UNCHANGED <<index, disk, seen_mods, history, input_queue>>
       ]_vars

\* The cycle met: the branch of A called download_project for B, whose branch
\* called it for A again, and that invocation is about to return at the guard.
C16_Witness ==
    \E w \in Workers :
        /\ workers[w].pc = "guard"
        /\ workers[w].mod_id = "A"
        /\ Len(workers[w].stack) = 2
        /\ workers[w].stack[1].mod_id = "A"
        /\ workers[w].stack[2].mod_id = "B"
        /\ "A" \in seen_mods

\* The prompts of thread w that are under way: waiting in input_queue, shown by
\* the dispatcher, or answered and not yet read by the thread.
PromptsUnderWay(w) ==
    Cardinality({i \in 1..Len(input_queue) : input_queue[i].worker = w})
    + (IF console = Some([worker |-> w]) THEN 1 ELSE 0)
    + (IF workers[w].response # None THEN 1 ELSE 0)

\* C18: a thread is blocked in safe_input exactly while one prompt of its own is
\* under way; an answer reaches a thread only from the dispatcher showing that
\* thread's prompt, which then shows no prompt; a thread leaves safe_input only
\* with an answer; and every thread waiting for an answer gets one.
C18_PromptsServedInTurn ==
    /\ [](\A w \in Workers :
             PromptsUnderWay(w) = IF workers[w].pc = "wait" THEN 1 ELSE 0)
    /\ [][\A w \in Workers :
             /\ (workers[w].response = None /\ workers'[w].response # None)
                => /\ console = Some([worker |-> w])
                   /\ console' = None
                   /\ workers'[w].pc = "wait"
             /\ (workers[w].pc = "wait" /\ workers'[w].pc # "wait")
                => workers[w].response # None
       ]_vars
    /\ \A w \in Workers : (workers[w].pc = "wait") ~> (workers[w].pc # "wait")

\* Two threads wait for the operator: the prompt of one is shown, the prompt of
\* the other is in the queue.
C18_Witness ==
    /\ console # None
    /\ Len(input_queue) = 1
    /\ input_queue[1].worker # console[1].worker
    /\ \A w \in Workers : workers[w].pc = "wait"

====
